---- MODULE Spec2Model ----
(***************************************************************************)
(* A model of glue.core.data_region.RegionData: the insertion dispatch of  *)
(* add_component, the read-only properties center_x_id / center_y_id /     *)
(* extended_component_id, and the two queries get_transform_to_cid and     *)
(* check_if_can_display.                                                   *)
(*                                                                         *)
(* The column store (Data.add_component, Data.get_component) and the link  *)
(* graph (Data._get_external_link, is_equivalent_cid, ComponentLink) are   *)
(* collaborators of RegionData: the store is modelled as an append-only    *)
(* sequence whose positions are the identifiers it issues, and the link    *)
(* graph of the session is a part of the state that the container only     *)
(* reads.                                                                  *)
(***************************************************************************)
EXTENDS Integers, Sequences, FiniteSets, TLC

VARIABLES components, extended_component_id, link_graph, last

vars == <<components, extended_component_id, link_graph, last>>

----------------------------------------------------------------------------
(* Bounds of the model *)

\* the column store holds at most MaxCols columns
MaxCols == 5

\* a value passed to add_component has at most MaxLen rows
MaxLen == 1

----------------------------------------------------------------------------
(* Values *)

\* Python's None: an unset _extended_component_id, an absent function
None == 0

\* `not link` / `link.get_from_ids()` on the absent answer of _get_external_link
NoLink == [from_ids |-> {}, to_ids |-> {}, using |-> "", inverse |-> "", present |-> FALSE]

Labels == {"geo", "r"}

\* a ComponentID that belongs to another data set
ForeignCids == {-1}

Lens == 0..MaxLen

\* the identifiers a caller or the link graph of the session can name besides
\* None: the first two columns of this container and a column of another data set
SessionCids == {1, 2} \cup ForeignCids

\* the values add_component is called with: a sequence of n shapely
\* geometries, a sequence of n numbers, a Component over n values, or an
\* ExtendedComponent over n geometries with center_comp_ids = [x, y]
Values ==
    [cls : {"geometries", "numbers", "Component"}, n : Lens, x : {None}, y : {None}]
    \cup [cls : {"ExtendedComponent"}, n : Lens, x : SessionCids, y : SessionCids]

\* a ComponentLink: the identifiers it maps from and to, and its two functions
ComponentLinks ==
    [from_ids : {{c} : c \in SessionCids}, to_ids : {{c} : c \in SessionCids},
     using : {"using"}, inverse : {"inverse"}, present : {TRUE}]

\* the link graph of the session: at most one link, registered for one
\* identifier, and one class of identifiers declared equivalent
NoGraph == [target |-> None, link |-> NoLink, equivalent |-> {}]

EquivalenceClasses == {S \in SUBSET SessionCids : Cardinality(S) \in {0, 2}}

LinkGraphs ==
    [target : {None}, link : {NoLink}, equivalent : EquivalenceClasses]
    \cup [target : SessionCids, link : ComponentLinks, equivalent : EquivalenceClasses]

Axes == {"x", "y", "z"}

----------------------------------------------------------------------------
(* The column store: Data.add_component and Data.get_component *)

\* the column a value becomes once it is stored under a label
Column(cls, label, n, x, y) == [cls |-> cls, label |-> label, n |-> n, x |-> x, y |-> y]

\* super().add_component(component, label): the store appends the column
Data_add_component(comps, col) == Append(comps, col)

\* the identifier super().add_component returns: the position of the new column
NewCid(comps) == Len(comps) + 1

\* self.get_component(cid): the column, or a failure for an identifier the
\* store does not hold (None included)
get_component(comps, cid) ==
    IF cid \in 1..Len(comps)
    THEN [raised |-> "", ret |-> comps[cid]]
    ELSE [raised |-> "UnresolvedReference", ret |-> Column("", "", 0, None, None)]

----------------------------------------------------------------------------
(* RegionData.add_component *)

Outcome(comps, ext, raised, msg, msg_cid, ret) ==
    [components |-> comps, extended |-> ext, raised |-> raised,
     msg |-> msg, msg_cid |-> msg_cid, ret |-> ret]

isinstance_Component(component) == component.cls \in {"Component", "ExtendedComponent"}

isinstance_ExtendedComponent(component) == component.cls = "ExtendedComponent"

\* all(isinstance(s, shapely.Geometry) for s in component): true of the
\* empty sequence whatever it was meant to hold
all_Geometry(component) == component.n = 0 \/ component.cls = "geometries"

\* f"Center [x] for {label}" and f"Center [y] for {label}"
CenterLabel(axis, label) == "Center [" \o axis \o "] for " \o label

\* a faulty geometry path: center_comp_ids=[cen_y_id, cen_x_id]
add_geometries_swapped(comps, ext, component, label) ==
    LET cen_x_id == Len(comps) + 1
        cen_y_id == Len(comps) + 2
        ext_id   == Len(comps) + 3
    IN  Outcome(comps \o << Column("Component", CenterLabel("x", label), component.n, None, None),
                            Column("Component", CenterLabel("y", label), component.n, None, None),
                            Column("ExtendedComponent", label, component.n, cen_y_id, cen_x_id) >>,
                ext_id, "", "", None, ext_id)

\* the geometry path: two center columns, then the ExtendedComponent that
\* references them, then the slot
add_geometries(comps, ext, component, label) ==
    LET with_x    == Data_add_component(comps,
                        Column("Component", CenterLabel("x", label), component.n, None, None))
        cen_x_id  == NewCid(comps)
        with_y    == Data_add_component(with_x,
                        Column("Component", CenterLabel("y", label), component.n, None, None))
        cen_y_id  == NewCid(with_x)
        with_ext  == Data_add_component(with_y,
                        Column("ExtendedComponent", label, component.n, cen_x_id, cen_y_id))
        ext_id    == NewCid(with_y)
    IN  Outcome(with_ext, ext_id, "", "", None, ext_id)

\* a faulty ExtendedComponent path: no look at the slot, the new one replaces it
add_extended_replaces(comps, ext, component, label) ==
    Outcome(Append(comps, Column("ExtendedComponent", label, component.n,
                                 component.x, component.y)),
            Len(comps) + 1, "", "", None, Len(comps) + 1)

\* the ExtendedComponent path: refuse a second one, else store it and set the slot
add_extended(comps, ext, component, label) ==
    IF ext # None
    THEN Outcome(comps, ext, "ValueError",
                 "Cannot add another ExtendedComponent; existing extended component: ",
                 ext, None)
    ELSE Outcome(Data_add_component(comps,
                     Column("ExtendedComponent", label, component.n, component.x, component.y)),
                 NewCid(comps), "", "", None, NewCid(comps))

\* anything else goes to the store unchanged
add_plain(comps, ext, component, label) ==
    Outcome(Data_add_component(comps, Column("Component", label, component.n, None, None)),
            ext, "", "", None, NewCid(comps))

add_component(comps, ext, component, label) ==
    IF ~isinstance_Component(component) /\ all_Geometry(component)
    THEN add_geometries(comps, ext, component, label)
    ELSE IF isinstance_ExtendedComponent(component)
         THEN add_extended(comps, ext, component, label)
         ELSE add_plain(comps, ext, component, label)

----------------------------------------------------------------------------
(* The read-only properties *)

extended_component_id_of(ext) == ext

\* a faulty center_x_id: reads .y
center_x_id_reads_y(comps, ext) ==
    IF ext \in 1..Len(comps)
    THEN [raised |-> "", ret |-> comps[ext].y]
    ELSE [raised |-> "UnresolvedReference", ret |-> None]

center_x_id(comps, ext) ==
    LET c == get_component(comps, extended_component_id_of(ext))
    IN  [raised |-> c.raised, ret |-> c.ret.x]

center_y_id(comps, ext) ==
    LET c == get_component(comps, extended_component_id_of(ext))
    IN  [raised |-> c.raised, ret |-> c.ret.y]

----------------------------------------------------------------------------
(* The link graph as the queries see it *)

\* self._get_external_link(cid): the link registered for cid, if any
get_external_link(graph, cid) ==
    IF graph.link.present /\ cid = graph.target THEN graph.link ELSE NoLink

\* this_cid in link.get_from_ids(), this_cid in link.get_to_ids()
get_from_ids(link) == link.from_ids

get_to_ids(link) == link.to_ids

\* center_cid in link: the identifiers the link governs
in_link(cid, link) == cid \in link.from_ids \cup link.to_ids

\* is_equivalent_cid(self, center_cid, target_cid): the same identifier, or
\* two identifiers the link graph declares equivalent
is_equivalent_cid(graph, cid1, cid2) ==
    cid1 = cid2 \/ (cid1 \in graph.equivalent /\ cid2 \in graph.equivalent)

----------------------------------------------------------------------------
(* RegionData.get_transform_to_cid *)

Answer(raised, msg, ret) == [raised |-> raised, msg |-> msg, ret |-> ret]

\* a faulty resolution: the to-ids are looked at before the from-ids
transform_of_link_to_first(this_cid, link) ==
    IF ~link.present
    THEN Answer("AttributeError", "", None)
    ELSE IF this_cid \in link.to_ids THEN Answer("", "", link.inverse)
    ELSE IF this_cid \in link.from_ids THEN Answer("", "", link.using)
    ELSE Answer("", "", "None")

\* func = None; link = ...; if/elif/return: the function of the link that maps this_cid
transform_of_link(this_cid, link) ==
    IF ~link.present
    THEN Answer("AttributeError", "", None)
    ELSE LET func == IF this_cid \in get_from_ids(link) THEN link.using
                     ELSE IF this_cid \in get_to_ids(link) THEN link.inverse
                     ELSE ""
         IN  IF func # "" THEN Answer("", "", func) ELSE Answer("", "", "None")

\* a faulty get_transform_to_cid: the center is read before the axis is looked at
get_transform_to_cid_center_first(comps, ext, graph, axis, other_cid) ==
    LET c == IF axis = "y" THEN center_y_id(comps, ext) ELSE center_x_id(comps, ext)
    IN  IF c.raised # "" THEN Answer(c.raised, "", None)
        ELSE IF axis \notin {"x", "y"} THEN Answer("ValueError", "axis must be 'x' or 'y'", None)
        ELSE transform_of_link(c.ret, get_external_link(graph, other_cid))

get_transform_to_cid(comps, ext, graph, axis, other_cid) ==
    IF axis = "x"
    THEN LET c == center_x_id(comps, ext)
         IN  IF c.raised # "" THEN Answer(c.raised, "", None)
             ELSE transform_of_link(c.ret, get_external_link(graph, other_cid))
    ELSE IF axis = "y"
    THEN LET c == center_y_id(comps, ext)
         IN  IF c.raised # "" THEN Answer(c.raised, "", None)
             ELSE transform_of_link(c.ret, get_external_link(graph, other_cid))
    ELSE Answer("ValueError", "axis must be 'x' or 'y'", None)

----------------------------------------------------------------------------
(* RegionData.check_if_can_display *)

\* a faulty check_if_can_display: center_cids = [self.center_x_id]
check_if_can_display_x_only(comps, ext, graph, target_cid) ==
    LET cx   == center_x_id(comps, ext)
        link == get_external_link(graph, target_cid)
    IN  IF cx.raised # "" THEN Answer(cx.raised, "", FALSE)
        ELSE IF is_equivalent_cid(graph, cx.ret, target_cid) THEN Answer("", "", TRUE)
        ELSE IF ~link.present THEN Answer("", "", FALSE)
        ELSE Answer("", "", in_link(cx.ret, link))

check_if_can_display(comps, ext, graph, target_cid) ==
    LET cx   == center_x_id(comps, ext)
        cy   == center_y_id(comps, ext)
        link == get_external_link(graph, target_cid)
    IN  IF cx.raised # "" THEN Answer(cx.raised, "", FALSE)
        ELSE IF cy.raised # "" THEN Answer(cy.raised, "", FALSE)
        ELSE IF \E center_cid \in {cx.ret, cy.ret} :
                    is_equivalent_cid(graph, center_cid, target_cid)
        THEN Answer("", "", TRUE)
        ELSE IF ~link.present THEN Answer("", "", FALSE)
        ELSE IF \E center_cid \in {cx.ret, cy.ret} : in_link(center_cid, link)
        THEN Answer("", "", TRUE)
        ELSE Answer("", "", FALSE)

----------------------------------------------------------------------------
(* The state machine *)

\* what the last call was, what it was given, what it found and what it answered
Call(op, arg, pre_comps, pre_ext, raised, msg, msg_cid, ret) ==
    [op |-> op, arg |-> arg, pre_components |-> pre_comps, pre_extended |-> pre_ext,
     raised |-> raised, msg |-> msg, msg_cid |-> msg_cid, ret |-> ret]

\* RegionData(label=...): no column, no slot
Constructed ==
    /\ components = << >>
    /\ extended_component_id = None
    /\ last = Call("__init__", [label |-> ""], << >>, None, "", "", None, None)

\* a caller holds the identifiers the store has issued and those of other data
\* sets, and passes values of the container's row count
Callable(component) ==
    /\ components # << >> => component.n = components[1].n
    /\ component.cls = "ExtendedComponent" =>
           {component.x, component.y} \subseteq (1..Len(components)) \cup ForeignCids

Add(component, label) ==
    LET out == add_component(components, extended_component_id, component, label)
    IN  /\ Callable(component)
        /\ Len(out.components) <= MaxCols
        /\ components' = out.components
        /\ extended_component_id' = out.extended
        /\ last' = Call("add_component", [component |-> component, label |-> label],
                        components, extended_component_id,
                        out.raised, out.msg, out.msg_cid, out.ret)
        /\ UNCHANGED link_graph

ReadCenter(axis) ==
    LET out == IF axis = "x" THEN center_x_id(components, extended_component_id)
                             ELSE center_y_id(components, extended_component_id)
    IN  /\ last' = Call("center_id", [axis |-> axis],
                        components, extended_component_id, out.raised, "", None, out.ret)
        /\ UNCHANGED <<components, extended_component_id, link_graph>>

TransformTo(axis, other_cid) ==
    LET out == get_transform_to_cid(components, extended_component_id, link_graph,
                                    axis, other_cid)
    IN  /\ last' = Call("get_transform_to_cid", [axis |-> axis, other_cid |-> other_cid],
                        components, extended_component_id, out.raised, out.msg, None, out.ret)
        /\ UNCHANGED <<components, extended_component_id, link_graph>>

CanDisplay(target_cid) ==
    LET out == check_if_can_display(components, extended_component_id, link_graph,
                                    target_cid)
    IN  /\ last' = Call("check_if_can_display", [target_cid |-> target_cid],
                        components, extended_component_id, out.raised, out.msg, None, out.ret)
        /\ UNCHANGED <<components, extended_component_id, link_graph>>

(* Insertion and the properties, with no link in the session *)

Init == Constructed /\ link_graph = NoGraph

Next ==
    \/ \E component \in Values, label \in Labels : Add(component, label)
    \/ \E axis \in {"x", "y"} : ReadCenter(axis)

Spec == Init /\ [][Next]_vars

(* The queries, over every link graph of the session; they read neither the
   labels nor the row counts of the columns *)

QueryValues == {v \in Values : v.n = MaxLen}

InitQuery == Constructed /\ link_graph \in LinkGraphs

NextQuery ==
    \/ \E component \in QueryValues : Add(component, "geo")
    \/ \E axis \in Axes, other_cid \in SessionCids : TransformTo(axis, other_cid)
    \/ \E target_cid \in SessionCids : CanDisplay(target_cid)

SpecQuery == InitQuery /\ [][NextQuery]_vars

----------------------------------------------------------------------------
(* Properties *)

\* the Region Columns of the container
ExtendedColumns == {i \in 1..Len(components) : components[i].cls = "ExtendedComponent"}

LastAdd == last.op = "add_component"

LastTransform == last.op = "get_transform_to_cid"

LastDisplay == last.op = "check_if_can_display"

Untouched == components = last.pre_components /\ extended_component_id = last.pre_extended

\* the Region Column the slot refers to
Region == components[extended_component_id]

\* the link the session holds for a target, if it holds one
HasLinkFor(cid) == link_graph.link.present /\ link_graph.target = cid

\* C1: whatever is added, in whatever order, the container holds at most one
\* Region Column, and an add on a container whose slot is set leaves the slot
\* on the same identifier.
C1_SingleRegionColumn ==
    /\ Cardinality(ExtendedColumns) <= 1
    /\ (LastAdd /\ last.pre_extended # None) =>
           extended_component_id = last.pre_extended

\* C2: adding a raw geometry sequence to a container whose slot is occupied
\* inserts nothing (no center column, no Region Column) and leaves the slot.
C2_GeometryOnOccupiedInsertsNothing ==
    (LastAdd /\ last.arg.component.cls = "geometries" /\ last.pre_extended # None)
        => Untouched

\* C3: adding a pre-built Region Column to an occupied container fails with the
\* duplicate-region error naming the existing slot and changes nothing; on an
\* empty slot it appends exactly that column and makes it the slot.
C3_PrebuiltRegionColumn ==
    (LastAdd /\ last.arg.component.cls = "ExtendedComponent") =>
        IF last.pre_extended # None
        THEN /\ last.raised = "ValueError"
             /\ last.msg = "Cannot add another ExtendedComponent; existing extended component: "
             /\ last.msg_cid = last.pre_extended
             /\ Untouched
        ELSE /\ last.raised = ""
             /\ components = Append(last.pre_components,
                    [cls |-> "ExtendedComponent", label |-> last.arg.label,
                     n |-> last.arg.component.n,
                     x |-> last.arg.component.x, y |-> last.arg.component.y])
             /\ extended_component_id = Len(components)
             /\ last.ret = extended_component_id

C3_Witness ==
    /\ LastAdd /\ last.arg.component.cls = "ExtendedComponent"
    /\ last.pre_extended # None /\ last.raised = "ValueError"
    /\ Len(components) >= 3

C5_NoTransformIsNone ==
    (/\ LastTransform /\ last.arg.axis \in {"x", "y"}
     /\ extended_component_id # None
     /\ LET c == IF last.arg.axis = "x" THEN Region.x ELSE Region.y
        IN  \/ ~HasLinkFor(last.arg.other_cid)
            \/ c \notin link_graph.link.from_ids \cup link_graph.link.to_ids)
        => (last.raised = "" /\ last.ret = "None")

\* C6: with a link for the target, get_transform_to_cid for axis x (y) answers
\* the link's forward function when center_x_id (center_y_id) is among the
\* from-ids, else its inverse when among the to-ids, else None; the other
\* axis' center plays no part.
C6_TransformOfLink ==
    (/\ LastTransform /\ last.arg.axis \in {"x", "y"}
     /\ extended_component_id # None
     /\ HasLinkFor(last.arg.other_cid))
        => LET c == IF last.arg.axis = "x" THEN Region.x ELSE Region.y
           IN  /\ last.raised = ""
               /\ last.ret = IF c \in link_graph.link.from_ids THEN link_graph.link.using
                             ELSE IF c \in link_graph.link.to_ids THEN link_graph.link.inverse
                             ELSE "None"

\* the axis' center is in both sets and the forward function is the answer,
\* while the other axis' center is in neither
C6_Witness ==
    /\ LastTransform /\ last.arg.axis = "x"
    /\ extended_component_id # None
    /\ HasLinkFor(last.arg.other_cid)
    /\ Region.x \in link_graph.link.from_ids \cap link_graph.link.to_ids
    /\ Region.y # Region.x
    /\ last.ret = "using"

\* C7: on a container with a Region Column, check_if_can_display answers TRUE
\* exactly when the target is a center, is equivalent to a center, or has a link
\* that holds a center; it answers without raising and changes nothing.
C7_CanDisplay ==
    (LastDisplay /\ extended_component_id # None) =>
        LET t       == last.arg.target_cid
            centers == {Region.x, Region.y}
        IN  /\ last.raised = ""
            /\ last.ret = (\/ t \in centers
                           \/ (t \in link_graph.equivalent
                               /\ centers \cap link_graph.equivalent # {})
                           \/ (HasLinkFor(t)
                               /\ centers \cap (link_graph.link.from_ids
                                                \cup link_graph.link.to_ids) # {}))
            /\ Untouched

\* TRUE by the link alone, through center_y_id
C7_Witness ==
    /\ LastDisplay /\ extended_component_id # None
    /\ last.ret = TRUE
    /\ last.arg.target_cid \notin {Region.x, Region.y}
    /\ link_graph.equivalent = {}
    /\ Region.x \notin link_graph.link.from_ids \cup link_graph.link.to_ids
    /\ Region.y \in link_graph.link.to_ids

\* C8: get_transform_to_cid with an axis other than x and y raises the
\* invalid-axis ValueError whatever the target, the link graph and the
\* container (with or without a Region Column), and changes nothing.
C8_InvalidAxis ==
    (LastTransform /\ last.arg.axis \notin {"x", "y"}) =>
        /\ last.raised = "ValueError"
        /\ last.msg = "axis must be 'x' or 'y'"
        /\ Untouched

C8_Witness ==
    /\ LastTransform /\ last.arg.axis = "z"
    /\ extended_component_id = None
    /\ ~HasLinkFor(last.arg.other_cid)
    /\ last.raised = "ValueError"

\* C9: while the slot is set, center_x_id and center_y_id are the two
\* identifiers stored in the Region Column the slot refers to; while there is
\* no Region Column, reading either fails.
C9_CentersReadThroughSlot ==
    /\ extended_component_id # None =>
           /\ extended_component_id \in ExtendedColumns
           /\ center_x_id(components, extended_component_id) = [raised |-> "", ret |-> Region.x]
           /\ center_y_id(components, extended_component_id) = [raised |-> "", ret |-> Region.y]
    /\ ExtendedColumns = {} =>
           /\ center_x_id(components, extended_component_id).raised # ""
           /\ center_y_id(components, extended_component_id).raised # ""
    /\ last.op = "center_id" =>
           IF extended_component_id # None
           THEN /\ last.raised = ""
                /\ last.ret = IF last.arg.axis = "x" THEN Region.x ELSE Region.y
           ELSE last.raised # ""

\* read after the slot has moved to a second Region Column with other centers
C9_Witness ==
    /\ last.op = "center_id" /\ last.arg.axis = "x"
    /\ extended_component_id # None
    /\ last.ret = Region.x /\ Region.x # Region.y
    /\ Cardinality(ExtendedColumns) = 2
    /\ \E i \in ExtendedColumns : components[i].x # Region.x

\* C10: both centers of every Region Column of the container are columns of
\* the container, inserted before it.
C10_CentersInContainer ==
    \A i \in ExtendedColumns :
        /\ components[i].x \in 1..(i - 1)
        /\ components[i].y \in 1..(i - 1)

====
